---- MODULE Spec2Model ----
(***************************************************************************)
(* The gifsicle engine of thumbor (src/thumbor/engines/gif.py): an engine  *)
(* object holding an encoded buffer, a list of pending gifsicle command    *)
(* fragments and the metadata parsed from `gifsicle --info`.  Every public *)
(* method is one action.  The external programs (gifsicle, gif2webp, the   *)
(* HEIF converter), the file system and PIL's verify are the environment:  *)
(* their exit codes, outputs and failures are chosen nondeterministically. *)
(*                                                                         *)
(* Besides the object's attributes the state holds a record of the last    *)
(* public call (lastOp, outcome, returned, calls, created, incrs), which   *)
(* is what a caller or a test double observes of that call.                *)
(***************************************************************************)
EXTENDS Integers, Sequences, FiniteSets, TLC

VARIABLES
    extension,    \* self.extension          (None before load)
    buffer,       \* self.buffer             (abstract byte-string identity)
    operations,   \* self.operations         (sequence of command fragments)
    image_size,   \* self.image_size         (<<>> while unset, else <<w, h>>)
    frame_count,  \* self.frame_count        (Unset while unset)
    tmpfiles,     \* names of the temporary files that exist on disk
    lastOp,       \* the last public call: [name, args, ext]
    outcome,      \* how it ended: [kind, code, cmd]; kind "ok" or the exception
    returned,     \* the bytes it returned (NoBuf: nothing returned)
    calls,        \* the external processes it ran, in order
    created,      \* the temporary files it created
    incrs,        \* how often it incremented metric gif_engine.no_output
    verified      \* the bytes it gave PIL to verify (NoBuf: none)

vars == <<extension, buffer, operations, image_size, frame_count, tmpfiles,
          lastOp, outcome, returned, calls, created, incrs, verified>>

----------------------------------------------------------------------------
(* Bounds of the model *)

MaxOps == 2        \* longest pending-operation list explored
MaxBuf == 1        \* byte strings are 0..MaxBuf
MaxFrames == 2     \* frame counts printed by gifsicle --info: 0..MaxFrames
MaxRc == 1         \* exit codes of the external programs: 0..MaxRc
MaxLeak == 1       \* temporary files left on disk before faults stop
MaxArg == 1        \* method arguments of SpecArgs: -MaxArg..MaxArg

(* Values standing for Python's None and for an attribute not yet set *)
None == "None"
NoBuf == -1
Unset == -1
QNone == -1

(* Configuration and request context *)
GIFSICLE_PATH == "gifsicle"
GIF2WEB_PATH == "gif2webp"
HEIF2JPEG_PATH == "heif2jpg"
QUALITY == 75
URL == "url"

Bytes == 0..MaxBuf
ExitCodes == 0..MaxRc

----------------------------------------------------------------------------
(* Output of gifsicle --info: a text, modelled as the sequence of the      *)
(* tokens the two regular expressions can match.                           *)

ScreenToken(w, h) == [t |-> "screen", a |-> w, b |-> h]   \* "logical screen WxH"
ImagesToken(n) == [t |-> "images", a |-> n, b |-> 0]      \* "N image(s)"

ScreenTokens == {ScreenToken(1, 2), ScreenToken(2, 3)}
ImagesTokens == {ImagesToken(n) : n \in 0..MaxFrames}
Tokens == ScreenTokens \cup ImagesTokens

InfoOutputs ==
    {<<>>} \cup {<<x>> : x \in Tokens}
           \cup {<<x, y>> : x \in ImagesTokens, y \in ScreenTokens}
           \cup {<<x, y>> \in ScreenTokens \X ScreenTokens : x # y}

(* re.search: the first match in the text, 0 (None) when there is none *)
Search(kind, text) ==
    IF \E i \in 1..Len(text) : text[i].t = kind
    THEN CHOOSE i \in 1..Len(text) :
            /\ text[i].t = kind
            /\ \A j \in 1..(i - 1) : text[j].t # kind
    ELSE 0

GIFSICLE_SIZE_REGEX(text) == Search("screen", text)
GIFSICLE_IMAGE_COUNT_REGEX(text) == Search("images", text)

----------------------------------------------------------------------------
(* The engine's attributes and the record of the running call, as a value  *)

Ok == [kind |-> "ok", code |-> 0, cmd |-> ""]
Error(kind) == [kind |-> kind, code |-> 0, cmd |-> ""]

Self ==
    [extension |-> extension, buffer |-> buffer, operations |-> operations,
     image_size |-> image_size, frame_count |-> frame_count,
     tmpfiles |-> tmpfiles, calls |-> <<>>, created |-> {}, incrs |-> 0,
     outcome |-> Ok, returned |-> NoBuf, verified |-> NoBuf]

Loaded == extension # None

Failed(s) == s.outcome.kind # "ok"
Last(q) == q[Len(q)]

----------------------------------------------------------------------------
(* run_gifsicle: one gifsicle process, self.buffer on its standard input.  *)
(* rc, out and text are what the process does: its exit code and its       *)
(* standard output (bytes in operation mode, text in info mode).           *)

GifSicleError(command, rc) ==
    [kind |-> "GifSicleError", code |-> rc,
     cmd |-> GIFSICLE_PATH \o " " \o command \o " " \o URL]

(* Mutant: the exit status of gifsicle is not looked at *)
run_gifsicle_IgnoresExit(s, command, rc, out, text) ==
    [s EXCEPT !.calls = Append(@, [tool |-> GIFSICLE_PATH, cmd |-> command,
                                   input |-> s.buffer, rc |-> rc,
                                   out |-> out, text |-> text])]

run_gifsicle(s, command, rc, out, text) ==
    LET p == [tool |-> GIFSICLE_PATH, cmd |-> command, input |-> s.buffer,
              rc |-> rc, out |-> out, text |-> text]
        s1 == [s EXCEPT !.calls = Append(@, p)]
    IN  IF rc # 0
        THEN [s1 EXCEPT !.outcome = GifSicleError(command, rc)]
        ELSE s1

(* Mutant: an animation needs only one frame *)
is_multiple_AtLeastOne == frame_count > 0

(* is_multiple and the size property read the cached metadata *)
is_multiple == frame_count > 1
size == image_size

(* Mutant: a token that is missing leaves the cached value and is no error *)
update_image_info_Lenient(s, rc, text) ==
    LET s1 == run_gifsicle(s, "--info", rc, NoBuf, text)
        i == GIFSICLE_SIZE_REGEX(text)
        j == GIFSICLE_IMAGE_COUNT_REGEX(text)
        s2 == IF i = 0 THEN s1
              ELSE [s1 EXCEPT !.image_size = <<text[i].a, text[i].b>>]
    IN  IF Failed(s1) THEN s1
        ELSE IF j = 0 THEN s2
        ELSE [s2 EXCEPT !.frame_count = text[j].a]

(* update_image_info: probe the buffer and parse the two tokens.  A regex  *)
(* that does not match returns None, and None.groups() raises              *)
(* AttributeError; image_size is assigned before the count is searched.    *)
update_image_info(s, rc, text) ==
    LET s1 == run_gifsicle(s, "--info", rc, NoBuf, text)
        i == GIFSICLE_SIZE_REGEX(text)
        j == GIFSICLE_IMAGE_COUNT_REGEX(text)
    IN  IF Failed(s1) THEN s1
        ELSE IF i = 0 THEN [s1 EXCEPT !.outcome = Error("AttributeError")]
        ELSE LET s2 == [s1 EXCEPT !.image_size = <<text[i].a, text[i].b>>]
             IN  IF j = 0
                 THEN [s2 EXCEPT !.outcome = Error("AttributeError")]
                 ELSE [s2 EXCEPT !.frame_count = text[j].a]

(* Mutant: the fragments are joined last first *)
RECURSIVE Join_Reversed(_)
Join_Reversed(ops) ==
    IF ops = <<>> THEN ""
    ELSE IF Len(ops) = 1 THEN ops[1]
    ELSE Join_Reversed(Tail(ops)) \o " " \o ops[1]

(* " ".join(self.operations) *)
RECURSIVE Join(_)
Join(ops) ==
    IF ops = <<>> THEN ""
    ELSE IF Len(ops) = 1 THEN ops[1]
    ELSE ops[1] \o " " \o Join(Tail(ops))

(* Mutant: gifsicle is run even when nothing is pending *)
flush_operations_Unguarded(s, rc, out) ==
    LET s1 == run_gifsicle(s, Join(s.operations), rc, out, <<>>)
    IN  IF Failed(s1) THEN s1
        ELSE [s1 EXCEPT !.buffer = Last(s1.calls).out, !.operations = <<>>]

(* Mutant: the pending list is cleared whether or not gifsicle succeeded *)
flush_operations_ClearsOnFailure(s, rc, out) ==
    IF s.operations = <<>> THEN s
    ELSE LET s1 == run_gifsicle(s, Join(s.operations), rc, out, <<>>)
         IN  IF Failed(s1) THEN [s1 EXCEPT !.operations = <<>>]
             ELSE [s1 EXCEPT !.buffer = Last(s1.calls).out, !.operations = <<>>]

(* Mutant: a flush that succeeded leaves the fragments it ran pending *)
flush_operations_KeepsList(s, rc, out) ==
    IF s.operations = <<>> THEN s
    ELSE LET s1 == run_gifsicle(s, Join(s.operations), rc, out, <<>>)
         IN  IF Failed(s1) THEN s1
             ELSE [s1 EXCEPT !.buffer = Last(s1.calls).out]

(* Mutant: a flush that succeeded drops the cached metadata *)
flush_operations_Invalidates(s, rc, out) ==
    IF s.operations = <<>> THEN s
    ELSE LET s1 == run_gifsicle(s, Join(s.operations), rc, out, <<>>)
         IN  IF Failed(s1) THEN s1
             ELSE [s1 EXCEPT !.buffer = Last(s1.calls).out,
                             !.operations = <<>>,
                             !.image_size = <<>>, !.frame_count = Unset]

flush_operations(s, rc, out) ==
    IF s.operations = <<>> THEN s
    ELSE LET s1 == run_gifsicle(s, Join(s.operations), rc, out, <<>>)
         IN  IF Failed(s1) THEN s1
             ELSE [s1 EXCEPT !.buffer = Last(s1.calls).out, !.operations = <<>>]

(* Mutant: a width or height that is not zero selects the one-sided shape *)
ResizeArguments_NonZero(width, height) ==
    IF width # 0 /\ height = 0 THEN "--resize-width " \o ToString(width)
    ELSE IF height # 0 /\ width = 0 THEN "--resize-height " \o ToString(height)
    ELSE "--resize " \o ToString(width) \o "x" \o ToString(height)

(* The command fragments *)
ResizeArguments(width, height) ==
    IF width > 0 /\ height = 0 THEN "--resize-width " \o ToString(width)
    ELSE IF height > 0 /\ width = 0 THEN "--resize-height " \o ToString(height)
    ELSE "--resize " \o ToString(width) \o "x" \o ToString(height)

CropArguments(left, top, right, bottom) ==
    "--crop " \o ToString(left) \o "," \o ToString(top) \o "-"
              \o ToString(right) \o "," \o ToString(bottom)

RotateArguments(degrees) == "--rotate-" \o ToString(degrees)

Enqueue(s, arguments) == [s EXCEPT !.operations = Append(@, arguments)]

(* Mutant: every multiple of 90 is accepted *)
rotate_AnyQuarter(s, degrees) ==
    IF degrees % 90 # 0 THEN s
    ELSE [s EXCEPT !.operations = Append(@, "--rotate-" \o ToString(degrees))]

(* Mutant: unsupported drawing is ignored instead of raising *)
draw_rectangle_Ignored(s) == s

(* Mutant: the metadata is not probed again after the flush *)
FlushAndUpdate_NoProbe(s, rc1, out, rc2, text) == flush_operations(s, rc1, out)

(* Mutant: the flip is put in front of the pending fragments *)
flip_horizontally_Prepends(s) ==
    [s EXCEPT !.operations = <<"--flip-horizontal">> \o @]

(* Mutant: the probe is run whether or not the flush raised *)
FlushAndUpdate_AlwaysProbes(s, rc1, out, rc2, text) ==
    update_image_info(flush_operations(s, rc1, out), rc2, text)

resize(s, width, height) ==
    IF width = 0 /\ height = 0 THEN s
    ELSE Enqueue(s, ResizeArguments(width, height))

rotate(s, degrees) ==
    IF degrees \notin {90, 180, 270} THEN s
    ELSE Enqueue(s, RotateArguments(degrees))

flip_vertically(s) == Enqueue(s, "--flip-vertical")
flip_horizontally(s) == Enqueue(s, "--flip-horizontal")
convert_to_grayscale(s) == Enqueue(s, "--use-colormap gray")
reorientate(s) == s
draw_rectangle(s) == [s EXCEPT !.outcome = Error("NotImplementedError")]

(* crop and extract_cover: enqueue, flush, probe; an exception raised by   *)
(* the flush ends the call before the probe.                               *)
FlushAndUpdate(s, rc1, out, rc2, text) ==
    LET s1 == flush_operations(s, rc1, out)
    IN  IF Failed(s1) THEN s1 ELSE update_image_info(s1, rc2, text)

crop(s, left, top, right, bottom, rc1, out, rc2, text) ==
    FlushAndUpdate(Enqueue(s, CropArguments(left, top, right, bottom)),
                   rc1, out, rc2, text)

extract_cover(s, rc1, out, rc2, text) ==
    FlushAndUpdate(Enqueue(s, "#0"), rc1, out, rc2, text)

(* load: the attributes are assigned first, then every format but HEIF is  *)
(* probed.  self.image and self._is_multiple are written and never read,   *)
(* and are left out of the state.                                          *)
load(s, buf, ext, rc, text) ==
    LET s1 == [s EXCEPT !.extension = ext, !.buffer = buf, !.operations = <<>>]
    IN  IF ext # ".heif" THEN update_image_info(s1, rc, text) ELSE s1

----------------------------------------------------------------------------
(* read.  NamedTemporaryFile(delete=False) creates a file under a name no  *)
(* existing file has.  fault is the step of a transcode at which the       *)
(* environment raises: "write" (gif_file.write / heif_file.write),         *)
(* "create" (the second NamedTemporaryFile), "spawn" (Popen), or "none".   *)

TmpName(n, suffix) == "tmp" \o ToString(n) \o suffix

NamedTemporaryFile(files, suffix) ==
    TmpName(CHOOSE n \in 0..Cardinality(files) :
                /\ TmpName(n, suffix) \notin files
                /\ \A m \in 0..(n - 1) : TmpName(m, suffix) \in files,
            suffix)

(* Lines 132-162 and 164-194: the two transcodes share their shape *)
Transcode(s, in_file, result_file, tool, command, error, fault, rc, out) ==
    LET s1 == [s EXCEPT !.tmpfiles = @ \cup {in_file},
                        !.created = @ \cup {in_file}]
        s2 == [s1 EXCEPT !.tmpfiles = @ \cup {result_file},
                         !.created = @ \cup {result_file}]
        p == [tool |-> tool, cmd |-> command, input |-> s.buffer,
              rc |-> rc, out |-> out, text |-> <<>>]
        s3 == [s2 EXCEPT !.calls = Append(@, p)]
        try == IF fault = "spawn" THEN [s2 EXCEPT !.outcome = Error("OSError")]
               ELSE IF rc # 0
               THEN [s3 EXCEPT !.outcome = [kind |-> error, code |-> rc,
                                            cmd |-> command \o " " \o URL]]
               ELSE [s3 EXCEPT !.returned = out]
    IN  IF fault = "write" THEN [s1 EXCEPT !.outcome = Error("IOError")]
        ELSE IF fault = "create" THEN [s1 EXCEPT !.outcome = Error("OSError")]
        ELSE [try EXCEPT !.tmpfiles = @ \ {in_file, result_file}]

(* Mutant: the quality is tested for truth, so that 0 reads as absent *)
Gif2WebpCommand_FalsyQuality(quality, gif_file, result_file) ==
    GIF2WEB_PATH \o " -q "
                 \o ToString(IF quality = 0 THEN QUALITY ELSE quality)
                 \o " " \o gif_file \o " -o " \o result_file

Gif2WebpCommand(quality, gif_file, result_file) ==
    GIF2WEB_PATH \o " -q " \o ToString(quality) \o " " \o gif_file
                 \o " -o " \o result_file

Heif2JpgCommand(heif_file, result_file) ==
    HEIF2JPEG_PATH \o " " \o heif_file \o " " \o result_file

(* Mutant: the buffer is verified before the pending operations are run *)
ReadBuffer_VerifiesFirst(s, rc, out, valid) ==
    LET s0 == [s EXCEPT !.verified = s.buffer]
        s1 == flush_operations(s0, rc, out)
    IN  IF ~valid
        THEN [s0 EXCEPT !.incrs = @ + 1, !.outcome = Error("InvalidImage")]
        ELSE IF Failed(s1) THEN s1
        ELSE [s1 EXCEPT !.returned = s1.buffer]

(* Lines 195-209: flush, verify with PIL (valid: whether verify accepts) *)
ReadBuffer(s, rc, out, valid) ==
    LET s1 == flush_operations(s, rc, out)
        s2 == [s1 EXCEPT !.verified = s1.buffer]
    IN  IF Failed(s1) THEN s1
        ELSE IF ~valid
        THEN [s2 EXCEPT !.incrs = @ + 1, !.outcome = Error("InvalidImage")]
        ELSE [s2 EXCEPT !.returned = s2.buffer]

read(s, ext, quality, fault, rc, out, valid) ==
    LET target == IF ext # None THEN ext ELSE s.extension
    IN  IF target = ".webp"
        THEN LET q == IF quality = QNone THEN QUALITY ELSE quality
                 gif_file == NamedTemporaryFile(s.tmpfiles, ".gif")
                 result_file == NamedTemporaryFile(s.tmpfiles \cup {gif_file}, ".webp")
             IN  Transcode(s, gif_file, result_file, GIF2WEB_PATH,
                           Gif2WebpCommand(q, gif_file, result_file),
                           "Gif2WebpError", fault, rc, out)
        ELSE IF s.extension = ".heif" /\ target = ".jpg"
        THEN LET heif_file == NamedTemporaryFile(s.tmpfiles, ".heif")
                 result_file == NamedTemporaryFile(s.tmpfiles \cup {heif_file}, ".jpg")
             IN  Transcode(s, heif_file, result_file, HEIF2JPEG_PATH,
                           Heif2JpgCommand(heif_file, result_file),
                           "HEIF2JpgError", fault, rc, out)
        ELSE ReadBuffer(s, rc, out, valid)

----------------------------------------------------------------------------
(* The state machine: one action per public method *)

Init ==
    /\ extension = None
    /\ buffer = NoBuf
    /\ operations = <<>>
    /\ image_size = <<>>
    /\ frame_count = Unset
    /\ tmpfiles = {}
    /\ lastOp = [name |-> "init", args |-> <<>>, ext |-> None]
    /\ outcome = Ok
    /\ returned = NoBuf
    /\ calls = <<>>
    /\ created = {}
    /\ incrs = 0
    /\ verified = NoBuf

(* The call `name(args)` took the engine to s *)
Does(name, args, ext, s) ==
    /\ extension' = s.extension
    /\ buffer' = s.buffer
    /\ operations' = s.operations
    /\ image_size' = s.image_size
    /\ frame_count' = s.frame_count
    /\ tmpfiles' = s.tmpfiles
    /\ lastOp' = [name |-> name, args |-> args, ext |-> ext]
    /\ outcome' = s.outcome
    /\ returned' = s.returned
    /\ calls' = s.calls
    /\ created' = s.created
    /\ incrs' = s.incrs
    /\ verified' = s.verified

(* The inputs a specification draws from: the arguments of the calls and  *)
(* what the environment may do.  E.ops bounds the list the caller builds   *)
(* (crop and extract_cover add their own fragment to it), E.leak the       *)
(* temporary files left on disk.                                           *)
Fits(E, s, extra) ==
    /\ Len(s.operations) <= E.ops + extra
    /\ Cardinality(s.tmpfiles) <= E.leak

(* A process that exits non-zero has its output ignored: none is recorded, *)
(* unless the specification lets failing processes write (E.noisy).        *)
Quiet(rc, text) == rc # 0 => text = <<>>
Ran(rc, out) == (rc = 0) <=> (out # NoBuf)
(* The output drawn for a probe that the call does not get to run *)
NotRun(E) == CHOOSE text \in E.texts : TRUE
Prints(E, rc, text) == Quiet(rc, text) \/ E.noisy
Emits(E, rc, out) == Ran(rc, out) \/ (E.noisy /\ rc # 0 /\ out # NoBuf)

Load(E) ==
    \E buf \in E.bytes, ext \in E.exts, rc \in E.codes, text \in E.texts :
        /\ Prints(E, rc, text)
        /\ ext = ".heif" => (rc = 0 /\ text = NotRun(E))
        /\ Does("load", <<buf>>, ext, load(Self, buf, ext, rc, text))

DrawRectangle(E) ==
    \E r \in E.rects :
        Does("draw_rectangle", r, None, draw_rectangle(Self))

Resize(E) ==
    /\ Loaded
    /\ \E width \in E.widths, height \in E.heights :
        LET s == resize(Self, width, height)
        IN  Fits(E, s, 0) /\ Does("resize", <<width, height>>, None, s)

Rotate(E) ==
    /\ Loaded
    /\ \E degrees \in E.degrees :
        LET s == rotate(Self, degrees)
        IN  Fits(E, s, 0) /\ Does("rotate", <<degrees>>, None, s)

FlipVertically(E) ==
    /\ Loaded
    /\ LET s == flip_vertically(Self)
       IN  Fits(E, s, 0) /\ Does("flip_vertically", <<>>, None, s)

FlipHorizontally(E) ==
    /\ Loaded
    /\ LET s == flip_horizontally(Self)
       IN  Fits(E, s, 0) /\ Does("flip_horizontally", <<>>, None, s)

ConvertToGrayscale(E) ==
    /\ Loaded
    /\ LET s == convert_to_grayscale(Self)
       IN  Fits(E, s, 0) /\ Does("convert_to_grayscale", <<>>, None, s)

Reorientate(E) ==
    /\ Loaded
    /\ Does("reorientate", <<>>, None, reorientate(Self))

Crop(E) ==
    /\ Loaded
    /\ Len(operations) <= E.ops
    /\ \E box \in E.boxes, rc1 \in E.codes, out \in E.bytes \cup {NoBuf},
          rc2 \in E.codes, text \in E.texts :
        /\ Emits(E, rc1, out)
        /\ Prints(E, rc2, text)
        /\ rc1 # 0 => (rc2 = 0 /\ text = NotRun(E))
        /\ LET s == crop(Self, box[1], box[2], box[3], box[4], rc1, out, rc2, text)
           IN  Fits(E, s, 1) /\ Does("crop", box, None, s)

ExtractCover(E) ==
    /\ Loaded
    /\ Len(operations) <= E.ops
    /\ \E rc1 \in E.codes, out \in E.bytes \cup {NoBuf},
          rc2 \in E.codes, text \in E.texts :
        /\ Emits(E, rc1, out)
        /\ Prints(E, rc2, text)
        /\ rc1 # 0 => (rc2 = 0 /\ text = NotRun(E))
        /\ LET s == extract_cover(Self, rc1, out, rc2, text)
           IN  Fits(E, s, 1) /\ Does("extract_cover", <<>>, None, s)

FlushOperations(E) ==
    /\ Loaded
    /\ \E rc \in E.codes, out \in E.bytes \cup {NoBuf} :
        /\ Emits(E, rc, out)
        /\ Does("flush_operations", <<>>, None, flush_operations(Self, rc, out))

Read(E) ==
    /\ Loaded
    /\ \E ext \in E.targets, quality \in E.qualities, fault \in E.faults,
          rc \in E.codes, out \in E.bytes \cup {NoBuf}, valid \in BOOLEAN :
        /\ Emits(E, rc, out)
        /\ LET s == read(Self, ext, quality, fault, rc, out, valid)
           IN  Fits(E, s, 1) /\ Does("read", <<quality>>, ext, s)

Next(E) ==
    \/ Load(E)
    \/ DrawRectangle(E)
    \/ Resize(E)
    \/ Rotate(E)
    \/ FlipVertically(E)
    \/ FlipHorizontally(E)
    \/ ConvertToGrayscale(E)
    \/ Reorientate(E)
    \/ Crop(E)
    \/ ExtractCover(E)
    \/ FlushOperations(E)
    \/ Read(E)

(* One info output of a two-frame 1x2 image *)
PlainInfo == <<ImagesToken(2), ScreenToken(1, 2)>>

(* Spec: every method; every info output gifsicle may print *)
Env ==
    [ops |-> 1, noisy |-> FALSE, leak |-> 0, texts |-> InfoOutputs, faults |-> {"none"},
     bytes |-> {0, 1}, codes |-> {0, 1},
     exts |-> {".gif", ".heif"}, targets |-> {None}, qualities |-> {QNone},
     widths |-> {0, 1}, heights |-> {0}, degrees |-> {90},
     boxes |-> {<<0, 1, 2, 3>>}, rects |-> {<<0, 0, 1, 1>>}]

Spec == Init /\ [][Next(Env)]_vars

(* SpecQueue: the pending list at its longest *)
EnvQueue ==
    [ops |-> MaxOps, noisy |-> FALSE, leak |-> 0, texts |-> {PlainInfo}, faults |-> {"none"},
     bytes |-> Bytes, codes |-> ExitCodes,
     exts |-> {".gif"}, targets |-> {None}, qualities |-> {QNone},
     widths |-> {0, 1}, heights |-> {0}, degrees |-> {90},
     boxes |-> {<<0, 1, 2, 3>>}, rects |-> {<<0, 0, 1, 1>>}]

SpecQueue == Init /\ [][Next(EnvQueue)]_vars

(* SpecRead: read with every target extension and quality; a process that *)
(* exits non-zero may have written output                                  *)
EnvRead ==
    [ops |-> 1, noisy |-> TRUE, leak |-> 0, texts |-> {PlainInfo}, faults |-> {"none"},
     bytes |-> {0, 1}, codes |-> {0, 1},
     exts |-> {".gif", ".heif"}, targets |-> {None, ".gif", ".webp", ".jpg"},
     qualities |-> {QNone, 0, 80},
     widths |-> {0, 1}, heights |-> {0}, degrees |-> {90},
     boxes |-> {<<0, 1, 2, 3>>}, rects |-> {<<0, 0, 1, 1>>}]

SpecRead == Init /\ [][Next(EnvRead)]_vars

(* SpecArgs: the methods over wide arguments *)
EnvArgs ==
    [ops |-> 1, noisy |-> FALSE, leak |-> 0, texts |-> {PlainInfo}, faults |-> {"none"},
     bytes |-> Bytes, codes |-> ExitCodes,
     exts |-> {".gif"}, targets |-> {None}, qualities |-> {QNone},
     widths |-> (0 - MaxArg)..MaxArg, heights |-> (0 - MaxArg)..MaxArg,
     degrees |-> {-90, 0, 45, 90, 180, 270, 360},
     boxes |-> {<<l, t, l + 1, t + 2>> : l, t \in 0..MaxArg},
     rects |-> {<<x, x, w, w>> : x, w \in (0 - MaxArg)..MaxArg}]

SpecArgs == Init /\ [][Next(EnvArgs)]_vars

(* SpecFaults: read on a file system that can fail *)
EnvFaults ==
    [ops |-> 1, noisy |-> FALSE, leak |-> MaxLeak, texts |-> {PlainInfo},
     faults |-> {"none", "write", "create", "spawn"},
     bytes |-> {0, 1}, codes |-> {0, 1},
     exts |-> {".gif", ".heif"}, targets |-> {None, ".webp", ".jpg"},
     qualities |-> {QNone},
     widths |-> {0, 1}, heights |-> {0}, degrees |-> {90},
     boxes |-> {<<0, 1, 2, 3>>}, rects |-> {<<0, 0, 1, 1>>}]

SpecFaults == Init /\ [][Next(EnvFaults)]_vars

----------------------------------------------------------------------------
(* Properties *)

Probing == lastOp.name \in {"crop", "extract_cover"}
Returned == outcome.kind = "ok"

(* What the two patterns capture in an info output: the first             *)
(* "logical screen WxH" and the first "N image"                            *)
FirstScreen(text, w, h) ==
    \E i \in 1..Len(text) :
        /\ text[i] = ScreenToken(w, h)
        /\ \A j \in 1..(i - 1) : text[j] \notin ScreenTokens
FirstImages(text, n) ==
    \E i \in 1..Len(text) :
        /\ text[i] = ImagesToken(n)
        /\ \A j \in 1..(i - 1) : text[j] \notin ImagesTokens
HasScreen(text) == \E i \in 1..Len(text) : text[i] \in ScreenTokens
HasImages(text) == \E i \in 1..Len(text) : text[i] \in ImagesTokens

(* The last process of the call is an info probe of the current buffer,   *)
(* and the cached metadata is what its output says.                        *)
ProbedFresh ==
    /\ calls # <<>>
    /\ Last(calls).tool = GIFSICLE_PATH
    /\ Last(calls).cmd = "--info"
    /\ Last(calls).rc = 0
    /\ Last(calls).input = buffer
    /\ Len(size) = 2
    /\ FirstScreen(Last(calls).text, size[1], size[2])
    /\ FirstImages(Last(calls).text, frame_count)

(* C1: when a read that takes a transcode path ends, however it ends,     *)
(* every temporary file it created has been deleted.                       *)
C1_TempFilesDeleted ==
    lastOp.name = "read" => created \cap tmpfiles = {}

(* C2: after a read that returned, whatever the target extension, the     *)
(* pending list is empty, and the bytes that were transcoded or returned   *)
(* are the output of the one gifsicle run over the operations that were    *)
(* pending when read was called.                                           *)
C2_ReadFlushesPending ==
    [][(lastOp'.name = "read" /\ outcome'.kind = "ok") =>
          /\ operations' = <<>>
          /\ operations # <<>> =>
                /\ calls' # <<>>
                /\ calls'[1].tool = GIFSICLE_PATH
                /\ calls'[1].cmd = Join(operations)
                /\ calls'[1].input = buffer
                /\ buffer' = calls'[1].out
          /\ operations = <<>> => buffer' = buffer
          /\ IF calls' # <<>> /\ Last(calls').tool # GIFSICLE_PATH
             THEN Last(calls').input = buffer'
             ELSE returned' = buffer'
      ]_vars

(* C3 as stated: after every crop and extract_cover the pending list is   *)
(* empty and the cached metadata is parsed from a probe of the flushed     *)
(* buffer.                                                                 *)
C3_CropAlwaysFlushed ==
    Probing => (operations = <<>> /\ ProbedFresh)

(* C3 amended: after a crop or extract_cover that returned (raised        *)
(* nothing) the pending list is empty, exactly two gifsicle processes ran, *)
(* the flush and then an info probe of the buffer the flush produced, and  *)
(* the cached size and frame count are the ones that probe printed.        *)
C3_CropFlushedWhenReturned ==
    (Probing /\ Returned) =>
        /\ operations = <<>>
        /\ Len(calls) = 2
        /\ calls[1].cmd # "--info"
        /\ buffer = calls[1].out
        /\ ProbedFresh

C3_Witness ==
    /\ lastOp.name = "crop"
    /\ Returned
    /\ Len(calls) = 2
    /\ calls[1].cmd = "--flip-vertical --crop 0,1-2,3"
    /\ calls[1].input # buffer
    /\ size = <<2, 3>>
    /\ frame_count = 1

(* The command line of a pending list, built from its last fragment back: *)
(* the fragments in the order they were enqueued, one space between two    *)
RECURSIVE CommandLine(_)
CommandLine(ops) ==
    IF Len(ops) = 0 THEN ""
    ELSE IF Len(ops) = 1 THEN ops[1]
    ELSE CommandLine(SubSeq(ops, 1, Len(ops) - 1)) \o " " \o ops[Len(ops)]

(* C4: flush_operations on a non-empty list runs gifsicle exactly once,   *)
(* on the current buffer, with the pending fragments in enqueue order      *)
(* joined by single spaces; when it returns the buffer is that run's       *)
(* output and the list is empty.  And in every step the list is left       *)
(* alone, grows by one fragment at its end, or is emptied by load or by a  *)
(* gifsicle run whose command line holds all of it, in order, followed at  *)
(* most by the fragment the call itself enqueued.                          *)
C4_FlushRunsPendingOnce ==
    [][/\ (lastOp'.name = "flush_operations" /\ operations # <<>>) =>
            /\ Len(calls') = 1
            /\ calls'[1].tool = GIFSICLE_PATH
            /\ calls'[1].input = buffer
            /\ calls'[1].cmd = CommandLine(operations)
            /\ outcome'.kind = "ok" <=> calls'[1].rc = 0
            /\ outcome'.kind = "ok" =>
                    (buffer' = calls'[1].out /\ operations' = <<>>)
       /\ \/ operations' = operations
          \/ /\ Len(operations') = Len(operations) + 1
             /\ SubSeq(operations', 1, Len(operations)) = operations
          \/ /\ operations' = <<>>
             /\ lastOp'.name = "load"
          \/ /\ operations' = <<>>
             /\ calls' # <<>>
             /\ calls'[1].rc = 0
             /\ \/ calls'[1].cmd = CommandLine(operations)
                \/ \E x \in {"#0"} \cup {CropArguments(b[1], b[2], b[3], b[4]) :
                                            b \in EnvQueue.boxes} :
                      /\ lastOp'.name \in {"crop", "extract_cover"}
                      /\ calls'[1].cmd = CommandLine(Append(operations, x))
      ]_vars

C4_Witness ==
    /\ lastOp.name = "flush_operations"
    /\ Returned
    /\ Len(calls) = 1
    /\ calls[1].cmd = "--resize-width 1 --use-colormap gray"
    /\ calls[1].input = 0
    /\ buffer = 1
    /\ operations = <<>>

(* C5: flush_operations on an empty list runs no process and leaves       *)
(* buffer, list and cached metadata as they were; so does a                *)
(* flush_operations that directly follows a flush_operations that          *)
(* returned.                                                               *)
C5_EmptyFlushIsNoOp ==
    [][(/\ lastOp'.name = "flush_operations"
        /\ \/ operations = <<>>
           \/ (lastOp.name = "flush_operations" /\ outcome.kind = "ok")) =>
            /\ calls' = <<>>
            /\ outcome'.kind = "ok"
            /\ UNCHANGED <<extension, buffer, operations, image_size,
                           frame_count, tmpfiles>>
      ]_vars

C5_Witness ==
    /\ lastOp.name = "flush_operations"
    /\ Returned
    /\ calls = <<>>
    /\ operations = <<>>
    /\ size = <<1, 2>>

(* C6 as stated: resize(0, 0) leaves the list alone; every other          *)
(* resize(w, h) appends one fragment: width-constrained when h = 0,        *)
(* height-constrained when w = 0, exact WxH when both are non-zero.        *)
C6_ResizeShapeByNonZero ==
    [][lastOp'.name = "resize" =>
          LET w == lastOp'.args[1]
              h == lastOp'.args[2]
          IN  IF w = 0 /\ h = 0 THEN operations' = operations
              ELSE operations' = Append(operations,
                      IF h = 0 THEN "--resize-width " \o ToString(w)
                      ELSE IF w = 0 THEN "--resize-height " \o ToString(h)
                      ELSE "--resize " \o ToString(w) \o "x" \o ToString(h))
      ]_vars

(* C6 amended: resize(0, 0) leaves the list alone; every other            *)
(* resize(w, h) appends one fragment: width-constrained when w > 0 and     *)
(* h = 0, height-constrained when h > 0 and w = 0, exact WxH in every      *)
(* other case (both non-zero, or the only non-zero argument negative).     *)
C6_ResizeShapeByPositive ==
    [][lastOp'.name = "resize" =>
          LET w == lastOp'.args[1]
              h == lastOp'.args[2]
              exact == "--resize " \o ToString(w) \o "x" \o ToString(h)
          IN  /\ outcome'.kind = "ok"
              /\ IF w = 0 /\ h = 0 THEN operations' = operations
                 ELSE operations' = Append(operations,
                      CASE h = 0 /\ w > 0 -> "--resize-width " \o ToString(w)
                        [] h = 0 /\ w < 0 -> exact
                        [] w = 0 /\ h > 0 -> "--resize-height " \o ToString(h)
                        [] w = 0 /\ h < 0 -> exact
                        [] OTHER -> exact)
      ]_vars

C6_Witness ==
    /\ lastOp.name = "resize"
    /\ lastOp.args = <<-1, 0>>
    /\ operations = <<"--resize -1x0">>

(* C7: rotate(d) raises nothing, runs no process and changes nothing but  *)
(* the list; the list is left alone when d is not 90, 180 or 270, and      *)
(* grows by the one rotate fragment of that angle, at its end, when it is. *)
C7_RotateQuarterTurnsOnly ==
    [][lastOp'.name = "rotate" =>
          LET d == lastOp'.args[1]
          IN  /\ outcome'.kind = "ok"
              /\ calls' = <<>>
              /\ UNCHANGED <<extension, buffer, image_size, frame_count, tmpfiles>>
              /\ operations' =
                    CASE d = 90 -> Append(operations, "--rotate-90")
                      [] d = 180 -> Append(operations, "--rotate-180")
                      [] d = 270 -> Append(operations, "--rotate-270")
                      [] OTHER -> operations
      ]_vars

C7_Witness ==
    /\ lastOp.name = "rotate"
    /\ lastOp.args = <<270>>
    /\ operations = <<"--rotate-270">>

(* C8: draw_rectangle raises, whatever its arguments and the state, runs  *)
(* no process and leaves list, buffer and cached metadata as they were.    *)
C8_DrawRectangleRaises ==
    [][lastOp'.name = "draw_rectangle" =>
          /\ outcome'.kind = "NotImplementedError"
          /\ calls' = <<>>
          /\ returned' = NoBuf
          /\ UNCHANGED <<extension, buffer, operations, image_size,
                         frame_count, tmpfiles>>
      ]_vars

C8_Witness ==
    /\ lastOp.name = "draw_rectangle"
    /\ lastOp.args = <<-1, -1, 1, 1>>
    /\ outcome.kind = "NotImplementedError"
    /\ operations # <<>>

(* C9: after a load of a non-HEIF buffer that returned, size is the       *)
(* width and height printed by the info probe of that buffer, and          *)
(* is_multiple is true exactly when the printed frame count exceeds 1.     *)
C9_LoadCachesProbe ==
    (lastOp.name = "load" /\ Returned /\ extension # ".heif") =>
        /\ Len(calls) = 1
        /\ calls[1].cmd = "--info"
        /\ calls[1].input = lastOp.args[1]
        /\ buffer = lastOp.args[1]
        /\ Len(size) = 2
        /\ FirstScreen(calls[1].text, size[1], size[2])
        /\ \E n \in 0..MaxFrames :
              /\ FirstImages(calls[1].text, n)
              /\ is_multiple <=> n > 1

C9_Witness ==
    /\ lastOp.name = "load"
    /\ Returned
    /\ extension = ".gif"
    /\ calls[1].text = <<ImagesToken(1), ScreenToken(2, 3)>>
    /\ size = <<2, 3>>
    /\ ~is_multiple

(* C10: a load, crop or extract_cover whose info probe exited 0 with an   *)
(* output lacking the dimension token or the frame-count token does not    *)
(* return: it raises.                                                      *)
C10_MissingTokenRaises ==
    (/\ lastOp.name \in {"load", "crop", "extract_cover"}
     /\ calls # <<>>
     /\ Last(calls).cmd = "--info"
     /\ Last(calls).rc = 0
     /\ ~(HasScreen(Last(calls).text) /\ HasImages(Last(calls).text))) =>
        outcome.kind \notin {"ok", "GifSicleError"}

C10_Witness ==
    /\ lastOp.name = "crop"
    /\ Len(calls) = 2
    /\ calls[2].rc = 0
    /\ calls[2].text = <<ScreenToken(1, 2)>>
    /\ outcome.kind = "AttributeError"

----------------------------------------------------------------------------
(* The exception each tool's non-zero exit raises, and the command line   *)
(* its message quotes (lines 46-51, 147-155, 179-187)                      *)
ErrorOf(tool) ==
    CASE tool = GIFSICLE_PATH -> "GifSicleError"
      [] tool = GIF2WEB_PATH -> "Gif2WebpError"
      [] tool = HEIF2JPEG_PATH -> "HEIF2JpgError"

Attempted(p) ==
    (IF p.tool = GIFSICLE_PATH THEN GIFSICLE_PATH \o " " \o p.cmd ELSE p.cmd)
        \o " " \o URL

(* C11: whenever an external process (gifsicle probing or operating, the  *)
(* WEBP transcoder, the HEIF transcoder) exits non-zero, the load, crop,   *)
(* extract_cover, flush_operations or read that ran it raises the tool's   *)
(* error with that exit code and the attempted command line, returns no    *)
(* bytes, and stores nothing the failed process wrote: the buffer is the   *)
(* one loaded, or the output of the flush that succeeded before, or the    *)
(* one it was, and the cached metadata is as it was.                       *)
C11_FailedToolFailsOperation ==
    [][\A i \in 1..Len(calls') :
          calls'[i].rc # 0 =>
            /\ lastOp'.name \in {"load", "crop", "extract_cover",
                                 "flush_operations", "read"}
            /\ outcome'.kind = ErrorOf(calls'[i].tool)
            /\ outcome'.code = calls'[i].rc
            /\ outcome'.cmd = Attempted(calls'[i])
            /\ returned' = NoBuf
            /\ buffer' = IF lastOp'.name = "load" THEN lastOp'.args[1]
                         ELSE IF i > 1 THEN calls'[1].out
                         ELSE buffer
            /\ UNCHANGED <<image_size, frame_count>>
      ]_vars

C11_Witness ==
    /\ lastOp.name = "crop"
    /\ Len(calls) = 1
    /\ calls[1].rc = 1
    /\ calls[1].out \notin {NoBuf, buffer}
    /\ outcome.kind = "GifSicleError"
    /\ outcome.code = 1
    /\ returned = NoBuf

----------------------------------------------------------------------------
(* The last call was a read that took neither transcode branch *)
PlainRead ==
    /\ lastOp.name = "read"
    /\ LET target == IF lastOp.ext # None THEN lastOp.ext ELSE extension
       IN  /\ target # ".webp"
           /\ ~(extension = ".heif" /\ target = ".jpg")

(* C12: a read on the non-transcode path first flushes what is pending    *)
(* (one gifsicle run over the pending list, none when it is empty); when   *)
(* the flush fails nothing is verified and no metric is incremented; else  *)
(* the buffer the flush left is the one verified, and either verification  *)
(* fails, the metric is incremented exactly once, the error propagates and *)
(* no bytes are returned, or it succeeds, the metric is not incremented    *)
(* and the bytes returned are that buffer.                                 *)
C12_ReadVerifiesFlushedBuffer ==
    [][PlainRead' =>
          /\ operations = <<>> => calls' = <<>>
          /\ operations # <<>> =>
                /\ Len(calls') = 1
                /\ calls'[1].cmd = CommandLine(operations)
                /\ calls'[1].input = buffer
          /\ IF calls' # <<>> /\ calls'[1].rc # 0
             THEN /\ outcome'.kind = "GifSicleError"
                  /\ verified' = NoBuf
                  /\ incrs' = 0
                  /\ returned' = NoBuf
             ELSE /\ buffer' = IF calls' # <<>> THEN calls'[1].out ELSE buffer
                  /\ verified' = buffer'
                  /\ \/ /\ outcome'.kind = "ok"
                        /\ incrs' = 0
                        /\ returned' = buffer'
                     \/ /\ outcome'.kind = "InvalidImage"
                        /\ incrs' = 1
                        /\ returned' = NoBuf
      ]_vars

C12_Witness ==
    /\ PlainRead
    /\ Len(calls) = 1
    /\ calls[1].rc = 0
    /\ calls[1].out # calls[1].input
    /\ verified = calls[1].out
    /\ outcome.kind = "InvalidImage"
    /\ incrs = 1
    /\ returned = NoBuf

----------------------------------------------------------------------------
(* The last call was a read whose target extension is '.webp' *)
WebpRead ==
    /\ lastOp.name = "read"
    /\ (IF lastOp.ext # None THEN lastOp.ext ELSE extension) = ".webp"

(* C13: a read to '.webp' runs the WEBP transcoder exactly once, over the *)
(* buffer, with "-q" followed by the quality passed (0 included) or, when  *)
(* none was passed, by the configured default; when the transcoder exits 0 *)
(* the read returns the contents of the transcoder's output file.          *)
C13_WebpQuality ==
    WebpRead =>
        /\ Len(calls) = 1
        /\ calls[1].tool = GIF2WEB_PATH
        /\ calls[1].input = buffer
        /\ calls[1].cmd =
              GIF2WEB_PATH \o " -q "
                \o ToString(IF lastOp.args[1] = QNone THEN QUALITY
                                                      ELSE lastOp.args[1])
                \o " " \o TmpName(0, ".gif") \o " -o " \o TmpName(0, ".webp")
        /\ calls[1].rc = 0 => (Returned /\ returned = calls[1].out)

C13_Witness ==
    /\ WebpRead
    /\ lastOp.args = <<0>>
    /\ calls[1].cmd = "gif2webp -q 0 tmp0.gif -o tmp0.webp"
    /\ calls[1].rc = 0
    /\ returned = calls[1].out
    /\ returned # buffer

----------------------------------------------------------------------------
(* C14: resize, rotate, flip_vertically, flip_horizontally and            *)
(* convert_to_grayscale run no external process and leave the buffer, the  *)
(* cached size and frame count (and the extension and the disk) as they    *)
(* were; resize and rotate append at most one fragment; the two flips and  *)
(* convert_to_grayscale append exactly their one fragment at the end of    *)
(* the pending list; reorientate changes nothing at all.                   *)
C14_EnqueueOnly ==
    [][/\ lastOp'.name \in {"resize", "rotate", "flip_vertically",
                            "flip_horizontally", "convert_to_grayscale",
                            "reorientate"} =>
            /\ calls' = <<>>
            /\ outcome'.kind = "ok"
            /\ UNCHANGED <<buffer, image_size, frame_count, extension,
                           tmpfiles>>
       /\ lastOp'.name \in {"resize", "rotate"} =>
            \/ operations' = operations
            \/ /\ Len(operations') = Len(operations) + 1
               /\ SubSeq(operations', 1, Len(operations)) = operations
       /\ lastOp'.name = "flip_vertically" =>
            operations' = Append(operations, "--flip-vertical")
       /\ lastOp'.name = "flip_horizontally" =>
            operations' = Append(operations, "--flip-horizontal")
       /\ lastOp'.name = "convert_to_grayscale" =>
            operations' = Append(operations, "--use-colormap gray")
       /\ lastOp'.name = "reorientate" => operations' = operations
      ]_vars

C14_Witness ==
    /\ lastOp.name = "flip_horizontally"
    /\ operations = <<"--use-colormap gray", "--flip-horizontal">>
    /\ calls = <<>>
    /\ buffer # NoBuf
    /\ size = <<1, 2>>

----------------------------------------------------------------------------
(* C15: only load, crop and extract_cover change the cached size and      *)
(* frame count; flush_operations and read, on every path, leave them as    *)
(* they were, so that after a resize has been applied by a flush or a read *)
(* size still gives the dimensions probed before.                          *)
C15_MetadataOnlyByProbes ==
    [][lastOp'.name \notin {"load", "crop", "extract_cover"} =>
          UNCHANGED <<image_size, frame_count>>
      ]_vars

C15_Witness ==
    /\ lastOp.name \in {"flush_operations", "read"}
    /\ Returned
    /\ Len(calls) = 1
    /\ calls[1].cmd = "--resize-width 1"
    /\ buffer = calls[1].out
    /\ buffer # calls[1].input
    /\ size = <<1, 2>>
    /\ is_multiple

----------------------------------------------------------------------------
(* C16: within one call, a process that exited non-zero is the last       *)
(* process the call ran, a probe whose output failed to parse is the last  *)
(* process the call ran, and no command line is run twice; so when the     *)
(* flush of a crop or extract_cover fails, the info probe is not run.      *)
C16_NoContinuationAfterFailure ==
    /\ \A i \in 1..Len(calls) : calls[i].rc # 0 => i = Len(calls)
    /\ \A i, j \in 1..Len(calls) :
          (i # j /\ calls[i].tool = calls[j].tool) =>
              calls[i].cmd # calls[j].cmd
    /\ outcome.kind = "AttributeError" =>
          /\ calls # <<>>
          /\ Last(calls).cmd = "--info"
          /\ Last(calls).rc = 0
          /\ ~(HasScreen(Last(calls).text) /\ HasImages(Last(calls).text))
    /\ (Probing /\ calls[1].cmd # "--info" /\ calls[1].rc # 0) =>
          Len(calls) = 1

C16_Witness ==
    /\ lastOp.name = "extract_cover"
    /\ Len(calls) = 1
    /\ calls[1].cmd = "--resize-width 1 #0"
    /\ calls[1].rc # 0
    /\ outcome.kind = "GifSicleError"
    /\ operations = <<"--resize-width 1", "#0">>

----------------------------------------------------------------------------
(* C17: when a read on the non-transcode path returned and the next call  *)
(* is again a read on the non-transcode path that returns, the second      *)
(* returns the same bytes as the first, runs no process, and leaves the    *)
(* buffer, the pending list and the cached metadata as they were.          *)
C17_ReadIdempotent ==
    [][(PlainRead /\ Returned /\ PlainRead' /\ Returned') =>
          /\ returned' = returned
          /\ calls' = <<>>
          /\ UNCHANGED <<buffer, operations, image_size, frame_count>>
      ]_vars

C17_Witness ==
    /\ PlainRead
    /\ Returned
    /\ calls = <<>>
    /\ operations = <<>>
    /\ returned = buffer
    /\ lastOp.ext = ".gif"
    /\ extension = ".heif"

----------------------------------------------------------------------------
(* The first process of the last call was gifsicle running the pending    *)
(* operations, and it exited non-zero                                      *)
FlushFailed ==
    /\ calls # <<>>
    /\ calls[1].tool = GIFSICLE_PATH
    /\ calls[1].cmd # "--info"
    /\ calls[1].rc # 0

(* The fragment a call enqueues by itself before it flushes *)
OwnFragment(op) ==
    IF op.name = "crop"
    THEN <<CropArguments(op.args[1], op.args[2], op.args[3], op.args[4])>>
    ELSE IF op.name = "extract_cover" THEN <<"#0">>
    ELSE <<>>

(* C18: when gifsicle exits non-zero during the flush of a                *)
(* flush_operations, crop, extract_cover or read, the buffer is the one    *)
(* the process was given and the pending list is the one whose fragments   *)
(* it was run with, the crop or frame-select fragment just enqueued        *)
(* included; and the next flush, when it follows at once, runs a command   *)
(* line that starts with all of those fragments.                           *)
C18_FailedFlushKeepsPending ==
    [][/\ FlushFailed' =>
            /\ lastOp'.name \in {"flush_operations", "crop",
                                 "extract_cover", "read"}
            /\ buffer' = buffer
            /\ buffer' = calls'[1].input
            /\ operations' = operations \o OwnFragment(lastOp')
            /\ calls'[1].cmd = CommandLine(operations')
       /\ (/\ FlushFailed
           /\ calls' # <<>>
           /\ calls'[1].tool = GIFSICLE_PATH
           /\ calls'[1].cmd # "--info") =>
            calls'[1].cmd = CommandLine(operations \o OwnFragment(lastOp'))
      ]_vars

C18_Witness ==
    /\ lastOp.name = "flush_operations"
    /\ Len(calls) = 1
    /\ calls[1].cmd = "--resize-width 1 --crop 0,1-2,3"
    /\ calls[1].rc = 0
    /\ operations = <<>>
    /\ buffer = calls[1].out

----------------------------------------------------------------------------
(* C19: the cached size and frame count change only together, both to     *)
(* what one info probe that exited 0 printed (the first dimension token    *)
(* and the first frame-count token of the same output); every other step,  *)
(* a probe whose output has a dimension token and no frame-count token     *)
(* included, changes neither.                                              *)
C19_MetadataAtomic ==
    [][\/ UNCHANGED <<image_size, frame_count>>
       \/ /\ calls' # <<>>
          /\ Last(calls').cmd = "--info"
          /\ Last(calls').rc = 0
          /\ Len(image_size') = 2
          /\ FirstScreen(Last(calls').text, image_size'[1], image_size'[2])
          /\ FirstImages(Last(calls').text, frame_count')
      ]_vars

====
